---- MODULE Spec2Model ----
(***************************************************************************)
(* A model of include/chia/phase1.hpp: the L_targets table (load_tables),  *)
(* the bucket matcher (FxMatcher), the Table-1 drive (compute_f1) and the  *)
(* table-transition drive (compute_matches).                               *)
(*                                                                         *)
(* Positions and indices are 0-based, as in the code; TLA+ sequences are   *)
(* 1-based, so element p of a vector v is v[p + 1].                        *)
(***************************************************************************)
EXTENDS Integers, Sequences, FiniteSets, TLC

VARIABLES
    \* load_tables
    L_targets,      \* static uint16_t L_targets[2][kBC][kExtraBitsPow]
    lt_pc,          \* position of load_tables: "idle", "loop", "done"
    lt_parity,      \* loop counters of load_tables
    lt_i,
    lt_m,
    lt_calls,       \* completed calls of load_tables
    \* one FxMatcher driven directly
    m_fx,           \* the matcher's private state: rmap, rmap_clean
    m_L,            \* bucket_L of the call
    m_R,            \* bucket_R of the call
    m_pos,          \* L_pos_begin of the call
    m_res,          \* what find_matches returned
    m_pc,           \* "call" before find_matches, "done" after
    m_calls,        \* completed calls of find_matches on this matcher
    m_early,        \* those of them that returned at line 182
    \* compute_matches
    stream,         \* the entries L_sort yields, in order
    rd,             \* how many of them L_sort->read has handed to read_thread
    pc,             \* position of the calling thread in compute_matches
    crashed,        \* the process was ended by an invalid memory access
    rt_q,           \* batches handed to read_thread and not yet taken by it
    rt_st,          \* read_thread: "idle", "submit" (in match_pool.take), "failed"
    rt_out,         \* the vector out of the batch being submitted
    L_index,        \* the window: [0] the current bucket, [1] the previous one
    L_offset,
    L_bucket,       \* shared_ptr values: an index into heap, Null for nullptr
    heap,           \* the vectors made by make_shared, by address
    mp_q,           \* inputs handed to match_pool and not yet taken by a worker
    mp_w,           \* the workers of match_pool, each with its own FxMatcher
    ev_q,           \* match lists handed to eval_thread and not yet taken
    ev_st,          \* eval_thread: "idle", "run" (in the loop), "add" (in R_sort->add)
    ev_cur,         \* the match list eval_thread is working on
    ev_k,           \* the match of ev_cur that is next
    R_sort,         \* the output sorter: the entries added, the calls of finish
    num_found,      \* std::atomic<uint64_t> num_found
    fin_matches,    \* the matches of the final match, until eval_thread takes them
    ret,            \* the value returned, NoValue before the return
    \* history of the run, read by the properties only
    ran,            \* every find_matches call: its two buckets and its result
    adders,         \* the threads that are inside R_sort->add
    added_by,       \* the threads that have called R_sort->add
    late_adds,      \* the adds made after finish
    err_at,         \* the stream position whose entry raised "input not sorted"
    err_dropped,    \* the jobs in out when the error was raised
    sliced,         \* how many entries the slicer has been given
    split,          \* a batch has ended between two entries of one bucket
    submitted,      \* the buckets of the jobs handed to match_pool so far
    \* compute_f1
    f1_pc,          \* position of the caller: "dispatch", "wait", "done"
    f1_k,           \* the loop variable k of line 259
    f1_q,           \* blocks handed to the pool and not yet taken by a worker
    f1_w,           \* the workers of the pool
    f1_out,         \* the vectors the pool has handed to output, in order
    f1_runs,        \* completed calls of compute_f1
    f1_prev,        \* what the previous call of compute_f1 handed to output
    \* one FxCalculator driven directly
    table_index_,   \* FxCalculator::table_index_
    kVectorLens,    \* the elements of kVectorLens that evaluate reads
    fx_L,           \* L of the call
    fx_R,           \* R of the call
    fx_entry,       \* entry after the call, with the hash it was made from
    fx_pc           \* "call" before evaluate, "done" after

tabVars == <<L_targets, lt_pc, lt_parity, lt_i, lt_m, lt_calls>>
matchVars == <<m_fx, m_L, m_R, m_pos, m_res, m_pc, m_calls, m_early>>
windowVars == <<L_index, L_offset, L_bucket, heap>>
readVars == <<rt_q, rt_st, rt_out>>
poolVars == <<mp_q, mp_w>>
evalVars == <<ev_q, ev_st, ev_cur, ev_k>>
mainVars == <<stream, rd, pc, fin_matches, ret>>
histVars == <<ran, adders, added_by, late_adds, err_at, err_dropped, sliced, split,
              submitted>>
pipeVars == <<mainVars, crashed, readVars, windowVars, poolVars, evalVars,
              R_sort, num_found, histVars>>
f1Vars == <<f1_pc, f1_k, f1_q, f1_w, f1_out, f1_runs, f1_prev>>
fxVars == <<table_index_, kVectorLens, fx_L, fx_R, fx_entry, fx_pc>>
vars == <<tabVars, matchVars, pipeVars, f1Vars, fxVars>>

----------------------------------------------------------------------------
(* Program constants.  chia/phase1.h, which sets kB = 119, kC = 127 and     *)
(* kExtraBits = 6, is not among the sources; the values here are the toy    *)
(* constants of the specification's end-to-end scenario (B=5, C=3, E=1).    *)
kB == 5

kC == 3

kExtraBits == 1

kExtraBitsPow == 2 ^ kExtraBits

kBC == kB * kC

\* A value stored into a uint16_t.  The 32- and 64-bit values of the code
\* (positions, offsets, counters) are kept as they are: they stay far below
\* 2^31, the largest integer the model checker represents, so they never wrap
\* in the model.
U16(n) == n % 65536

----------------------------------------------------------------------------
(* load_tables, lines 21-35 *)

\* A mutant of TargetValue: the row is not reduced modulo kB.
TargetValueNoWrap(parity, i, m) ==
    U16((i \div kC + m) * kC + (((2 * m + parity) * (2 * m + parity) + i) % kC))

\* The value stored by one iteration of the innermost loop (lines 27-31).
TargetValue(parity, i, m) ==
    LET indJ == U16(i \div kC)
    IN  U16(((indJ + m) % kB) * kC
            + (((2 * m + parity) * (2 * m + parity) + i) % kC))

\* The static array before load_tables: zero-initialised.
ZeroTable ==
    [parity \in 0..1 |-> [i \in 0..(kBC - 1) |-> [m \in 0..(kExtraBitsPow - 1) |-> 0]]]

\* The array after a complete run of load_tables.
LoadedTable ==
    [parity \in 0..1 |->
        [i \in 0..(kBC - 1) |->
            [m \in 0..(kExtraBitsPow - 1) |-> TargetValue(parity, i, m)]]]

\* How many times load_tables is called in the model.
MaxLoads == 2

\* initialize() / load_tables() is entered.
LoadTablesBegin ==
    /\ lt_pc \in {"idle", "done"}
    /\ lt_calls < MaxLoads
    /\ lt_pc' = "loop"
    /\ lt_parity' = 0
    /\ lt_i' = 0
    /\ lt_m' = 0
    /\ UNCHANGED <<L_targets, lt_calls, matchVars, fxVars, pipeVars, f1Vars>>

\* One iteration of the innermost loop, and the loop headers that follow it.
LoadTablesStep ==
    /\ lt_pc = "loop"
    /\ L_targets' = [L_targets EXCEPT ![lt_parity][lt_i][lt_m] =
                        TargetValue(lt_parity, lt_i, lt_m)]
    /\ UNCHANGED <<matchVars, fxVars, pipeVars, f1Vars>>
    /\ IF lt_m + 1 < kExtraBitsPow
       THEN /\ lt_m' = lt_m + 1
            /\ UNCHANGED <<lt_i, lt_parity, lt_pc, lt_calls>>
       ELSE IF lt_i + 1 < kBC
       THEN /\ lt_m' = 0
            /\ lt_i' = lt_i + 1
            /\ UNCHANGED <<lt_parity, lt_pc, lt_calls>>
       ELSE IF lt_parity + 1 < 2
       THEN /\ lt_m' = 0
            /\ lt_i' = 0
            /\ lt_parity' = lt_parity + 1
            /\ UNCHANGED <<lt_pc, lt_calls>>
       ELSE /\ lt_pc' = "done"
            /\ lt_calls' = lt_calls + 1
            /\ UNCHANGED <<lt_m, lt_i, lt_parity>>

\* The table as the other specifications find it: initialize() has run.
TablesLoaded ==
    /\ L_targets = LoadedTable
    /\ lt_pc = "done"
    /\ lt_parity = 1
    /\ lt_i = kBC - 1
    /\ lt_m = kExtraBitsPow - 1
    /\ lt_calls = 1

----------------------------------------------------------------------------
(* FxMatcher, lines 147-240 *)

\* FxMatcher(): rmap.resize(kBC) value-initialises every item (lines 155-157).
FreshFx ==
    [rmap |-> [r \in 0..(kBC - 1) |-> [pos |-> 0, count |-> 0]],
     rmap_clean |-> <<>>]

\* A mutant of CleanRmap: the counts of the previous call are left as they are.
CleanRmapNone(rmap, clean, k) == rmap

\* Lines 186-189: the counts of the residues of the previous call are zeroed.
RECURSIVE CleanRmap(_, _, _)
CleanRmap(rmap, clean, k) ==
    IF k > Len(clean)
    THEN rmap
    ELSE CleanRmap([rmap EXCEPT ![clean[k]].count = 0], clean, k + 1)

\* Lines 192-200: the first position and the count of every residue of bucket_R.
RECURSIVE FillRmap(_, _, _, _)
FillRmap(fx, bucket_R, offset, pos_R) ==
    IF pos_R >= Len(bucket_R)
    THEN fx
    ELSE LET r_y == bucket_R[pos_R + 1].y - offset
             old == fx.rmap[r_y]
             first == IF old.count = 0 THEN [old EXCEPT !.pos = U16(pos_R)] ELSE old
             item == [first EXCEPT !.count = U16(first.count + 1)]
         IN  FillRmap([rmap |-> [fx.rmap EXCEPT ![r_y] = item],
                       rmap_clean |-> Append(fx.rmap_clean, U16(r_y))],
                      bucket_R, offset, pos_R + 1)

\* A mutant of PairsFor: every occurrence is reported at the first position.
PairsForFirstOnly(rmap, pos_L, r_target) ==
    [j \in 1..rmap[r_target].count |->
        [l |-> U16(pos_L), r |-> U16(rmap[r_target].pos)]]

\* Lines 208-212: one index pair per occurrence of the target residue.
PairsFor(rmap, pos_L, r_target) ==
    [j \in 1..rmap[r_target].count |->
        [l |-> U16(pos_L), r |-> U16(rmap[r_target].pos + (j - 1))]]

\* A mutant of TargetLoop: the pairs of a later candidate are written first.
RECURSIVE TargetLoopReversed(_, _, _, _, _)
TargetLoopReversed(rmap, targets, pos_L, r, i) ==
    IF i >= kExtraBitsPow
    THEN <<>>
    ELSE TargetLoopReversed(rmap, targets, pos_L, r, i + 1)
            \o PairsFor(rmap, pos_L, targets[r][i])

\* A mutant of TargetLoop: only the first candidate is looked up.
TargetLoopFirstOnly(rmap, targets, pos_L, r, i) ==
    IF i >= 1
    THEN <<>>
    ELSE PairsFor(rmap, pos_L, targets[r][i])

\* Lines 206-213: the kExtraBitsPow candidates of one left entry, in order.
RECURSIVE TargetLoop(_, _, _, _, _)
TargetLoop(rmap, targets, pos_L, r, i) ==
    IF i >= kExtraBitsPow
    THEN <<>>
    ELSE PairsFor(rmap, pos_L, targets[r][i])
            \o TargetLoop(rmap, targets, pos_L, r, i + 1)

\* Lines 204-214: the left entries, in order.
RECURSIVE LeftLoop(_, _, _, _, _)
LeftLoop(rmap, targets, bucket_L, offset_y, pos_L) ==
    IF pos_L >= Len(bucket_L)
    THEN <<>>
    ELSE TargetLoop(rmap, targets, pos_L, bucket_L[pos_L + 1].y - offset_y, 0)
            \o LeftLoop(rmap, targets, bucket_L, offset_y, pos_L + 1)

\* find_matches_ex, lines 175-216: the matcher's state after the call and the
\* index pairs it wrote, in the order written.  idx_L and idx_R are the caller's
\* arrays of kBC elements (lines 222-223): a write past them is undefined, which
\* overflow reports.
find_matches_ex(fx, tables, bucket_L, bucket_R) ==
    IF Len(bucket_L) = 0 \/ Len(bucket_R) = 0
    THEN [fx |-> fx, idx |-> <<>>, overflow |-> FALSE]
    ELSE LET parity == (bucket_L[1].y \div kBC) % 2
             cleaned == [rmap |-> CleanRmap(fx.rmap, fx.rmap_clean, 1),
                         rmap_clean |-> <<>>]
             offset == (bucket_R[1].y \div kBC) * kBC
             filled == FillRmap(cleaned, bucket_R, offset, 0)
             offset_y == offset - kBC
             idx == LeftLoop(filled.rmap, tables[parity], bucket_L, offset_y, 0)
         IN  [fx |-> filled, idx |-> idx, overflow |-> Len(idx) > kBC]

\* What a read past the end of a bucket yields: no entry of the bucket.
OutOfRange == [y |-> -1, id |-> -1]

\* Lines 226-233: the match built from one index pair.  The vectors are read
\* without a range check.
MatchOf(L_pos_begin, bucket_L, bucket_R, p) ==
    [left |-> IF p.l < Len(bucket_L) THEN bucket_L[p.l + 1] ELSE OutOfRange,
     right |-> IF p.r < Len(bucket_R) THEN bucket_R[p.r + 1] ELSE OutOfRange,
     pos |-> L_pos_begin + p.l,
     off |-> U16(p.r + (Len(bucket_L) - p.l))]

\* find_matches, lines 218-235.  ub: the index arrays were overrun.
find_matches(fx, tables, L_pos_begin, bucket_L, bucket_R) ==
    LET ex == find_matches_ex(fx, tables, bucket_L, bucket_R)
    IN  [fx |-> ex.fx,
         idx |-> ex.idx,
         ub |-> ex.overflow,
         out |-> IF ex.overflow
                 THEN <<>>
                 ELSE [k \in 1..Len(ex.idx) |->
                          MatchOf(L_pos_begin, bucket_L, bucket_R, ex.idx[k])]]

----------------------------------------------------------------------------
(* One matcher called directly on two buckets. *)

\* Longest bucket handed to the matcher.
MaxBucket == 4

\* The sequences over S of length at most n.
SeqsUpTo(S, n) == UNION {[1..k -> S] : k \in 0..n}

\* Residues of the left and of the right entries; 14 is in the last row, so
\* that its targets wrap around modulo kB.
LeftResidues == {0, 1, 14}

RightResidues == {0, 1, 4}

\* An entry of a table: its y and, standing for the rest of its fields, id.
Entry(y, id) == [y |-> y, id |-> id]

\* The bucket with bucket index b and the given residues, in the given order.
BucketOf(b, residues) ==
    [k \in 1..Len(residues) |-> Entry(b * kBC + residues[k], k - 1)]

MatchOff ==
    /\ m_fx = FreshFx
    /\ m_L = <<>>
    /\ m_R = <<>>
    /\ m_pos = 0
    /\ m_res = [fx |-> FreshFx, idx |-> <<>>, ub |-> FALSE, out |-> <<>>]
    /\ m_pc = "off"
    /\ m_calls = 0
    /\ m_early = 0

InitMatch ==
    /\ TablesLoaded
    /\ m_fx = FreshFx
    /\ \E b \in 0..1 :
          /\ m_L \in {BucketOf(b, s) : s \in SeqsUpTo(LeftResidues, MaxBucket)}
          /\ m_R \in {BucketOf(b + 1, s) : s \in SeqsUpTo(RightResidues, MaxBucket)}
    /\ m_pos \in {0, 7}
    /\ m_res = [fx |-> FreshFx, idx |-> <<>>, ub |-> FALSE, out |-> <<>>]
    /\ m_pc = "call"
    /\ m_calls = 0
    /\ m_early = 0

\* Fx.find_matches(m_pos, m_L, m_R)
FindMatches ==
    /\ m_pc = "call"
    /\ LET res == find_matches(m_fx, L_targets, m_pos, m_L, m_R)
       IN  /\ m_res' = res
           /\ m_fx' = res.fx
    /\ m_pc' = "done"
    /\ m_calls' = m_calls + 1
    /\ m_early' = m_early + (IF Len(m_L) = 0 \/ Len(m_R) = 0 THEN 1 ELSE 0)
    /\ UNCHANGED <<m_L, m_R, m_pos, tabVars, pipeVars, f1Vars, fxVars>>

----------------------------------------------------------------------------
(* One matcher called several times, as a worker of match_pool calls its   *)
(* own (lines 292-298).                                                     *)

\* How many times the matcher is called.
MaxCalls == 3

\* Longest bucket of these calls.
MaxReuseBucket == 2

\* The buckets of one call: empty ones too, as find_matches accepts them.
ReuseBuckets(b) ==
    [L : {BucketOf(b, s) : s \in SeqsUpTo(LeftResidues, MaxReuseBucket)},
     R : {BucketOf(b + 1, s) : s \in SeqsUpTo(RightResidues, MaxReuseBucket)}]

InitReuse ==
    /\ TablesLoaded
    /\ m_fx = FreshFx
    /\ \E b \in 0..1 : \E c \in ReuseBuckets(b) : m_L = c.L /\ m_R = c.R
    /\ m_pos = 0
    /\ m_res = [fx |-> FreshFx, idx |-> <<>>, ub |-> FALSE, out |-> <<>>]
    /\ m_pc = "call"
    /\ m_calls = 0
    /\ m_early = 0

\* The caller comes back to the same matcher with the buckets of its next pair.
NextCall ==
    /\ m_pc = "done"
    /\ m_calls < MaxCalls
    /\ \E b \in 0..1 : \E c \in ReuseBuckets(b) : m_L' = c.L /\ m_R' = c.R
    /\ m_pc' = "call"
    /\ UNCHANGED <<m_fx, m_pos, m_res, m_calls, m_early, tabVars, pipeVars, f1Vars, fxVars>>

----------------------------------------------------------------------------
(* compute_matches, lines 265-355.                                          *)
(*                                                                          *)
(* Thread, ThreadPool and Processor (chia/ThreadPool.h) and the sorter      *)
(* L_sort / R_sort are not among the sources.  They are modelled from the   *)
(* specification: a stage has a bounded queue, take blocks while the queue  *)
(* is full, wait blocks until the stage has nothing queued or in progress,  *)
(* and an exception of a stage ends the drive.                              *)

\* nullptr
Null == 0

\* Capacity of the queue in front of each stage.
QueueCap == 1

\* num_threads: the workers of match_pool.
NumThreads == 2

\* Longest input stream.
MaxStream == 4

\* The y of the entries of the streams: bucket 0, twice bucket 1, buckets 2, 3.
StreamValues == {0, kBC, kBC + 1, 2 * kBC + 1, 3 * kBC + 1}

\* The stream with the given y values; id is the entry's position in it.
StreamOf(ys) == [k \in 1..Len(ys) |-> Entry(ys[k], k - 1)]

\* A std::array<_, 2> with elements a and b.
Array2(a, b) == [i \in 0..1 |-> IF i = 0 THEN a ELSE b]

Workers == 1..NumThreads

\* take of a stage returns only when the stage's queue has room.
CanTake(q) == Len(q) < QueueCap

\* wait of read_thread returns when it has nothing left to do.
ReadDrained == rt_q = <<>> /\ rt_st = "idle"

\* wait of match_pool returns when its workers have passed on all their output.
PoolDrained == mp_q = <<>> /\ \A w \in Workers : mp_w[w].st = "idle"

\* wait of eval_thread
EvalDrained == ev_q = <<>> /\ ev_st = "idle"

\* A mutant of NotSorted: the entry is compared with the previous bucket.
NotSortedPrev(index, index2) == index < index2[1]

\* Line 314: the entry is below the current bucket.
NotSorted(index, index2) == index < index2[0]

\* Lines 318 and 345: the previous and the current bucket are adjacent.
Adjacent(index2) == index2[1] + 1 = index2[0]

\* Line 318: the slicer emits a job when it leaves the current bucket.
EmitsJob(index2) == Adjacent(index2)

\* A mutant of EmitJob: the pair is pushed twice.
EmitJobTwice(out, pair) == Append(Append(out, pair), pair)

\* Line 322: out.push_back(pair)
EmitJob(out, pair) == Append(out, pair)

\* A mutant of OffsetAfter: L_offset[1] keeps its old value.
OffsetAfterStale(offset2, size) == Array2(offset2[0] + size, offset2[1])

\* Lines 326-327: the offsets after a rotation; size is L_bucket[0]->size().
OffsetAfter(offset2, size) == Array2(offset2[0] + size, offset2[0])

\* A mutant of Rotate: L_bucket[0] is not reset (line 329), so the slicer goes
\* on filling the bucket it has just put into a job.
RotateKeepBucket(w, index) ==
    LET out == IF EmitsJob(w.L_index)
               THEN EmitJob(w.out, [L_offset |-> w.L_offset, L_bucket |-> w.L_bucket])
               ELSE w.out
    IN  IF w.L_bucket[0] = Null
        THEN [w EXCEPT !.out = out, !.status = "crash"]
        ELSE [w EXCEPT !.out = out,
                       !.L_index = Array2(index, w.L_index[0]),
                       !.L_offset = OffsetAfter(w.L_offset, Len(w.heap[w.L_bucket[0]])),
                       !.L_bucket = Array2(w.L_bucket[0], w.L_bucket[0])]

\* Lines 317-330: the entry's bucket index is above the current one.  The
\* shared_ptr L_bucket[0] is dereferenced at line 327; dereferencing nullptr
\* is an invalid access, which ends the process.
Rotate(w, index) ==
    LET out == IF EmitsJob(w.L_index)
               THEN EmitJob(w.out, [L_offset |-> w.L_offset, L_bucket |-> w.L_bucket])
               ELSE w.out
    IN  IF w.L_bucket[0] = Null
        THEN [w EXCEPT !.out = out, !.status = "crash"]
        ELSE [w EXCEPT !.out = out,
                       !.L_index = Array2(index, w.L_index[0]),
                       !.L_offset = OffsetAfter(w.L_offset, Len(w.heap[w.L_bucket[0]])),
                       !.L_bucket = Array2(Null, w.L_bucket[0])]

\* Lines 311-335: one iteration of the slicer's loop.
SliceEntry(w, entry) ==
    LET index == entry.y \div kBC
    IN  IF NotSorted(index, w.L_index)
        THEN [w EXCEPT !.status = "throw", !.at = entry.id + 1]
        ELSE LET r == IF index > w.L_index[0] THEN Rotate(w, index) ELSE w
             IN  IF r.status # "ok"
                 THEN r
                 ELSE LET a == IF r.L_bucket[0] = Null
                               THEN [r EXCEPT !.heap = Append(@, <<>>),
                                              !.L_bucket[0] = Len(r.heap) + 1]
                               ELSE r
                      IN  [a EXCEPT !.heap[a.L_bucket[0]] = Append(@, entry)]

\* A mutant of SliceLoop: the bucket being filled does not outlive the batch.
RECURSIVE SliceLoopPerBatch(_, _, _)
SliceLoopPerBatch(w, input, k) ==
    IF k > Len(input) \/ w.status # "ok"
    THEN w
    ELSE LET v == IF k = 1 /\ w.L_bucket[0] # Null
                  THEN [w EXCEPT !.heap = Append(@, <<>>), !.L_bucket[0] = Len(w.heap) + 1]
                  ELSE w
         IN  SliceLoopPerBatch(SliceEntry(v, input[k]), input, k + 1)

\* Lines 310-335: the loop over one batch.
RECURSIVE SliceLoop(_, _, _)
SliceLoop(w, input, k) ==
    IF k > Len(input) \/ w.status # "ok"
    THEN w
    ELSE SliceLoop(SliceEntry(w, input[k]), input, k + 1)

\* A mutant of FoundAfter: the size is assigned, not added.
FoundAfterAssign(found, matches) == Len(matches)

\* Lines 297 and 348: num_found += matches.size()
FoundAfter(found, matches) == found + Len(matches)

\* Lines 294-298: the loop of a match_pool worker over the pairs of its input.
\* acc: the worker's matcher, its output so far, num_found, the calls made.
RECURSIVE MatchLoop(_, _, _, _, _)
MatchLoop(acc, tables, hp, input, k) ==
    IF k > Len(input) \/ acc.status # "ok"
    THEN acc
    ELSE LET pair == input[k]
         IN  IF pair.L_bucket[1] = Null \/ pair.L_bucket[0] = Null
             THEN [acc EXCEPT !.status = "crash"]
             ELSE LET bL == hp[pair.L_bucket[1]]
                      bR == hp[pair.L_bucket[0]]
                      res == find_matches(acc.fx, tables, pair.L_offset[1], bL, bR)
                  IN  IF res.ub
                      THEN [acc EXCEPT !.status = "crash"]
                      ELSE MatchLoop(
                              [fx |-> res.fx,
                               out |-> acc.out \o res.out,
                               found |-> FoundAfter(acc.found, res.out),
                               ran |-> Append(acc.ran,
                                              [L |-> bL, R |-> bR, by |-> "pool",
                                               ids |-> <<pair.L_bucket[1], pair.L_bucket[0]>>,
                                               offsets |-> <<pair.L_offset[1], pair.L_offset[0]>>,
                                               out |-> res.out]),
                               status |-> "ok"],
                              tables, hp, input, k + 1)

\* Lines 284-287: the entry made from a match.  Fx.evaluate is a function of
\* the two parents, which stand for what it computes from them.
EvalEntry(match) ==
    [pos |-> match.pos, off |-> match.off, of |-> <<match.left.id, match.right.id>>]

IdleWorker == [st |-> "idle", input |-> <<>>, out |-> <<>>, fx |-> FreshFx]

InitPipe ==
    /\ stream \in {StreamOf(ys) : ys \in SeqsUpTo(StreamValues, MaxStream)}
    /\ rd = 0
    /\ pc = "read"
    /\ crashed = FALSE
    /\ rt_q = <<>>
    /\ rt_st = "idle"
    /\ rt_out = <<>>
    /\ L_index = Array2(0, 0)
    /\ L_offset = Array2(0, 0)
    /\ L_bucket = Array2(Null, Null)
    /\ heap = <<>>
    /\ mp_q = <<>>
    /\ mp_w = [w \in Workers |-> IdleWorker]
    /\ ev_q = <<>>
    /\ ev_st = "idle"
    /\ ev_cur = <<>>
    /\ ev_k = 1
    /\ R_sort = [entries |-> <<>>, finished |-> 0]
    /\ num_found = 0
    /\ fin_matches = <<>>
    /\ ret = <<>>
    /\ ran = <<>>
    /\ adders = {}
    /\ added_by = {}
    /\ late_adds = 0
    /\ err_at = 0
    /\ err_dropped = <<>>
    /\ sliced = 0
    /\ split = FALSE
    /\ submitted = {}

PipeOff ==
    /\ stream = <<>>
    /\ rd = 0
    /\ pc = "off"
    /\ crashed = FALSE
    /\ rt_q = <<>>
    /\ rt_st = "idle"
    /\ rt_out = <<>>
    /\ L_index = Array2(0, 0)
    /\ L_offset = Array2(0, 0)
    /\ L_bucket = Array2(Null, Null)
    /\ heap = <<>>
    /\ mp_q = <<>>
    /\ mp_w = [w \in Workers |-> IdleWorker]
    /\ ev_q = <<>>
    /\ ev_st = "idle"
    /\ ev_cur = <<>>
    /\ ev_k = 1
    /\ R_sort = [entries |-> <<>>, finished |-> 0]
    /\ num_found = 0
    /\ fin_matches = <<>>
    /\ ret = <<>>
    /\ ran = <<>>
    /\ adders = {}
    /\ added_by = {}
    /\ late_adds = 0
    /\ err_at = 0
    /\ err_dropped = <<>>
    /\ sliced = 0
    /\ split = FALSE
    /\ submitted = {}

\* Line 340, L_sort->read: the next batch, of any length, goes to read_thread.
ReadBatch ==
    /\ ~crashed
    /\ pc = "read"
    /\ rt_st # "failed"
    /\ rd < Len(stream)
    /\ CanTake(rt_q)
    /\ \E n \in 1..(Len(stream) - rd) :
          /\ rt_q' = Append(rt_q, SubSeq(stream, rd + 1, rd + n))
          /\ rd' = rd + n
          /\ split' = (split \/ (rd + n < Len(stream)
                                  /\ stream[rd + n].y \div kBC = stream[rd + n + 1].y \div kBC))
    /\ UNCHANGED <<tabVars, matchVars, fxVars, f1Vars, stream, pc, fin_matches, ret, crashed, rt_st, rt_out, windowVars,
                   poolVars, evalVars, R_sort, num_found, ran, adders, added_by, late_adds,
                   err_at, err_dropped, sliced, submitted>>

\* Line 340: L_sort->read returns at the end of the stream.
ReadEnd ==
    /\ ~crashed
    /\ pc = "read"
    /\ rt_st # "failed"
    /\ rd = Len(stream)
    /\ pc' = "wait_read"
    /\ UNCHANGED <<tabVars, matchVars, fxVars, f1Vars, stream, rd, fin_matches, ret, crashed, readVars, windowVars,
                   poolVars, evalVars, R_sort, num_found, histVars>>

\* Lines 340-342: the error of read_thread reaches the caller of take or wait,
\* and compute_matches is left by the exception.
Abort ==
    /\ ~crashed
    /\ pc \in {"read", "wait_read"}
    /\ rt_st = "failed"
    /\ pc' = "aborted"
    /\ UNCHANGED <<tabVars, matchVars, fxVars, f1Vars, stream, rd, fin_matches, ret, crashed, readVars, windowVars,
                   poolVars, evalVars, R_sort, num_found, histVars>>

\* Lines 302-335: read_thread runs its function on the next batch, up to the
\* call of match_pool.take.
SliceBatch ==
    /\ ~crashed
    /\ rt_st = "idle"
    /\ rt_q # <<>>
    /\ LET input == Head(rt_q)
           w == SliceLoop([L_index |-> L_index, L_offset |-> L_offset,
                           L_bucket |-> L_bucket, heap |-> heap,
                           out |-> <<>>, status |-> "ok", at |-> 0],
                          input, 1)
       IN  /\ rt_q' = Tail(rt_q)
           /\ sliced' = sliced + Len(input)
           /\ L_index' = w.L_index
           /\ L_offset' = w.L_offset
           /\ L_bucket' = w.L_bucket
           /\ heap' = w.heap
           /\ crashed' = (w.status = "crash")
           /\ rt_st' = IF w.status = "throw" THEN "failed" ELSE "submit"
           /\ rt_out' = IF w.status = "throw" THEN <<>> ELSE w.out
           /\ err_at' = w.at
           /\ err_dropped' = IF w.status = "throw" THEN w.out ELSE <<>>
    /\ UNCHANGED <<tabVars, matchVars, fxVars, f1Vars, mainVars, poolVars, evalVars, R_sort, num_found,
                   ran, adders, added_by, late_adds, split, submitted>>

\* Line 337: match_pool.take(out)
SliceSubmit ==
    /\ ~crashed
    /\ rt_st = "submit"
    /\ CanTake(mp_q)
    /\ mp_q' = Append(mp_q, rt_out)
    /\ rt_st' = "idle"
    /\ rt_out' = <<>>
    /\ submitted' = submitted \cup UNION {{rt_out[k].L_bucket[0], rt_out[k].L_bucket[1]} :
                                             k \in 1..Len(rt_out)}
    /\ UNCHANGED <<tabVars, matchVars, fxVars, f1Vars, mainVars, crashed, rt_q, windowVars, mp_w, evalVars, R_sort,
                   num_found, ran, adders, added_by, late_adds, err_at, err_dropped, sliced,
                   split>>

\* A worker of match_pool takes the next input.
MatchStart(w) ==
    /\ ~crashed
    /\ mp_w[w].st = "idle"
    /\ mp_q # <<>>
    /\ mp_w' = [mp_w EXCEPT ![w].st = "run", ![w].input = Head(mp_q)]
    /\ mp_q' = Tail(mp_q)
    /\ UNCHANGED <<tabVars, matchVars, fxVars, f1Vars, mainVars, crashed, readVars, windowVars, evalVars, R_sort,
                   num_found, histVars>>

\* Lines 293-298: the worker's function.
MatchRun(w) ==
    /\ ~crashed
    /\ mp_w[w].st = "run"
    /\ LET acc == MatchLoop([fx |-> mp_w[w].fx, out |-> <<>>, found |-> num_found,
                             ran |-> ran, status |-> "ok"],
                            L_targets, heap, mp_w[w].input, 1)
       IN  /\ mp_w' = [mp_w EXCEPT ![w] = [st |-> "out", input |-> <<>>,
                                           out |-> acc.out, fx |-> acc.fx]]
           /\ num_found' = acc.found
           /\ ran' = acc.ran
           /\ crashed' = (acc.status = "crash")
    /\ UNCHANGED <<tabVars, matchVars, fxVars, f1Vars, mainVars, readVars, windowVars, mp_q, evalVars, R_sort,
                   adders, added_by, late_adds, err_at, err_dropped, split, submitted, sliced>>

\* Line 299: the worker's output goes to eval_thread.
MatchDeliver(w) ==
    /\ ~crashed
    /\ mp_w[w].st = "out"
    /\ CanTake(ev_q)
    /\ ev_q' = Append(ev_q, mp_w[w].out)
    /\ mp_w' = [mp_w EXCEPT ![w].st = "idle", ![w].out = <<>>]
    /\ UNCHANGED <<tabVars, matchVars, fxVars, f1Vars, mainVars, crashed, readVars, windowVars, mp_q, ev_st, ev_cur, ev_k,
                   R_sort, num_found, histVars>>

\* eval_thread takes the next match list (line 281).
EvalStart ==
    /\ ~crashed
    /\ ev_st = "idle"
    /\ ev_q # <<>>
    /\ ev_cur' = Head(ev_q)
    /\ ev_q' = Tail(ev_q)
    /\ ev_k' = 1
    /\ ev_st' = "run"
    /\ UNCHANGED <<tabVars, matchVars, fxVars, f1Vars, mainVars, crashed, readVars, windowVars, poolVars, R_sort,
                   num_found, histVars>>

\* Lines 283-288: the entry of the next match is made and R_sort->add entered.
EvalAddBegin ==
    /\ ~crashed
    /\ ev_st = "run"
    /\ ev_k <= Len(ev_cur)
    /\ ev_st' = "add"
    /\ adders' = adders \cup {"eval"}
    /\ UNCHANGED <<tabVars, matchVars, fxVars, f1Vars, mainVars, crashed, readVars, windowVars, poolVars, ev_q, ev_cur, ev_k,
                   R_sort, num_found, ran, added_by, late_adds, err_at, err_dropped, split, submitted,
                   sliced>>

\* Line 288: R_sort->add returns.
EvalAddEnd ==
    /\ ~crashed
    /\ ev_st = "add"
    /\ R_sort' = [R_sort EXCEPT !.entries = Append(@, EvalEntry(ev_cur[ev_k]))]
    /\ late_adds' = late_adds + (IF R_sort.finished > 0 THEN 1 ELSE 0)
    /\ adders' = adders \ {"eval"}
    /\ added_by' = added_by \cup {"eval"}
    /\ ev_k' = ev_k + 1
    /\ ev_st' = "run"
    /\ UNCHANGED <<tabVars, matchVars, fxVars, f1Vars, mainVars, crashed, readVars, windowVars, poolVars, ev_q, ev_cur,
                   num_found, ran, err_at, err_dropped, split, submitted, sliced>>

\* Line 289: the loop over the matches ends.
EvalDone ==
    /\ ~crashed
    /\ ev_st = "run"
    /\ ev_k > Len(ev_cur)
    /\ ev_st' = "idle"
    /\ ev_cur' = <<>>
    /\ ev_k' = 1
    /\ UNCHANGED <<tabVars, matchVars, fxVars, f1Vars, mainVars, crashed, readVars, windowVars, poolVars, ev_q, R_sort,
                   num_found, histVars>>

\* Line 342: read_thread.wait()
WaitRead ==
    /\ ~crashed
    /\ pc = "wait_read"
    /\ ReadDrained
    /\ pc' = "wait_pool"
    /\ UNCHANGED <<tabVars, matchVars, fxVars, f1Vars, stream, rd, fin_matches, ret, crashed, readVars, windowVars,
                   poolVars, evalVars, R_sort, num_found, histVars>>

\* Line 343: match_pool.wait()
WaitPool ==
    /\ ~crashed
    /\ pc = "wait_pool"
    /\ PoolDrained
    /\ pc' = "final"
    /\ UNCHANGED <<tabVars, matchVars, fxVars, f1Vars, stream, rd, fin_matches, ret, crashed, readVars, windowVars,
                   poolVars, evalVars, R_sort, num_found, histVars>>

\* A mutant of FinalMatchNeeded: there is no final match.
FinalMatchSkipped(index2) == FALSE

\* Line 345: the last two buckets of the window are matched by the caller.
FinalMatchNeeded(index2) == Adjacent(index2)

\* Lines 345-348: the final match, up to the call of eval_thread.take.
FinalMatch ==
    /\ ~crashed
    /\ pc = "final"
    /\ IF FinalMatchNeeded(L_index)
       THEN LET acc == MatchLoop([fx |-> FreshFx, out |-> <<>>, found |-> num_found,
                                  ran |-> ran, status |-> "ok"],
                                 L_targets, heap,
                                 <<[L_offset |-> L_offset, L_bucket |-> L_bucket]>>, 1)
            IN  /\ fin_matches' = acc.out
                /\ num_found' = acc.found
                /\ ran' = [k \in 1..Len(acc.ran) |->
                              IF k > Len(ran) THEN [acc.ran[k] EXCEPT !.by = "caller"]
                              ELSE acc.ran[k]]
                /\ crashed' = (acc.status = "crash")
                /\ pc' = "final_take"
       ELSE /\ pc' = "wait_eval"
            /\ UNCHANGED <<fin_matches, num_found, ran, crashed>>
    /\ UNCHANGED <<tabVars, matchVars, fxVars, f1Vars, stream, rd, ret, readVars, windowVars, poolVars, evalVars, R_sort,
                   adders, added_by, late_adds, err_at, err_dropped, split, submitted, sliced>>

\* A mutant of FinalTake: the caller hashes and adds the final matches itself.
FinalAddDirect ==
    /\ ~crashed
    /\ pc = "final_take"
    /\ R_sort' = [R_sort EXCEPT !.entries =
                     @ \o [k \in 1..Len(fin_matches) |-> EvalEntry(fin_matches[k])]]
    /\ adders' = adders \cup {"caller"}
    /\ added_by' = added_by \cup {"caller"}
    /\ fin_matches' = <<>>
    /\ pc' = "wait_eval"
    /\ UNCHANGED <<tabVars, matchVars, fxVars, f1Vars, stream, rd, ret, crashed, readVars, windowVars,
                   poolVars, evalVars, num_found, ran, late_adds, err_at, err_dropped, split, submitted,
                   sliced>>

\* Line 349: eval_thread.take(matches)
FinalTake ==
    /\ ~crashed
    /\ pc = "final_take"
    /\ CanTake(ev_q)
    /\ ev_q' = Append(ev_q, fin_matches)
    /\ fin_matches' = <<>>
    /\ pc' = "wait_eval"
    /\ UNCHANGED <<tabVars, matchVars, fxVars, f1Vars, stream, rd, ret, crashed, readVars, windowVars, poolVars,
                   ev_st, ev_cur, ev_k, R_sort, num_found, histVars>>

\* A mutant of WaitEval: the caller does not wait for eval_thread.
WaitEvalSkipped ==
    /\ ~crashed
    /\ pc = "wait_eval"
    /\ pc' = "finish"
    /\ UNCHANGED <<tabVars, matchVars, fxVars, f1Vars, stream, rd, fin_matches, ret, crashed, readVars,
                   windowVars, poolVars, evalVars, R_sort, num_found, histVars>>

\* Line 351: eval_thread.wait()
WaitEval ==
    /\ ~crashed
    /\ pc = "wait_eval"
    /\ EvalDrained
    /\ pc' = "finish"
    /\ UNCHANGED <<tabVars, matchVars, fxVars, f1Vars, stream, rd, fin_matches, ret, crashed, readVars, windowVars,
                   poolVars, evalVars, R_sort, num_found, histVars>>

\* Lines 353-354: R_sort->finish(); return num_found;
Finish ==
    /\ ~crashed
    /\ pc = "finish"
    /\ R_sort' = [R_sort EXCEPT !.finished = @ + 1]
    /\ ret' = <<num_found>>
    /\ pc' = "done"
    /\ UNCHANGED <<tabVars, matchVars, fxVars, f1Vars, stream, rd, fin_matches, crashed, readVars, windowVars, poolVars,
                   evalVars, num_found, histVars>>

----------------------------------------------------------------------------
(* compute_f1, lines 245-263, and F1Calculator, lines 41-76.                *)
(*                                                                          *)
(* The sizes are scaled down: x has kK = 9 bits where the code has 32, so   *)
(* the 2^28 blocks of line 259 are 2^(kK - 4) = 32 here, and a task is      *)
(* M = 2 blocks where the code has 4096.  The divisor 4 of line 259 and the *)
(* 16 entries of a block are those of the code.                             *)
kK == 9

F1Blocks == 2 ^ (kK - 4)

M == 2

F1Div == 4

BlockSize == 16

\* chacha8_get_keystream (chacha8.h, not among the sources): the 4-byte word
\* at offset 4 * i of the block at stream position index, a fixed function of
\* the key, the position and the offset.
Keystream(index, i) == (index * 37 + i * 11 + 5) % (2 ^ kK)

\* compute_entry_1_block, lines 59-72: the 16 entries of block index.
compute_entry_1_block(index) ==
    [s \in 1..BlockSize |->
        LET i == s - 1
            x == index * BlockSize + i
        IN  [x |-> x,
             y |-> Keystream(index, i) * (2 ^ kExtraBits) + x \div (2 ^ (kK - kExtraBits))]]

\* Lines 250-255: the vector a worker makes of task block.
RECURSIVE F1Task(_, _)
F1Task(block, i) ==
    IF i >= M
    THEN <<>>
    ELSE compute_entry_1_block(block * M + i) \o F1Task(block, i + 1)

\* Line 259: the number of tasks the loop dispatches.
F1TaskCount == (F1Blocks \div M) \div F1Div

IdleF1Worker == [st |-> "idle", block |-> 0, out |-> <<>>]

InitF1 ==
    /\ f1_pc = "dispatch"
    /\ f1_k = 0
    /\ f1_q = <<>>
    /\ f1_w = [w \in Workers |-> IdleF1Worker]
    /\ f1_out = <<>>
    /\ f1_runs = 0
    /\ f1_prev = <<>>

F1Off ==
    /\ f1_pc = "off"
    /\ f1_k = 0
    /\ f1_q = <<>>
    /\ f1_w = [w \in Workers |-> IdleF1Worker]
    /\ f1_out = <<>>
    /\ f1_runs = 0
    /\ f1_prev = <<>>

\* Lines 259-261: pool.take_copy(k)
F1Dispatch ==
    /\ f1_pc = "dispatch"
    /\ f1_k < F1TaskCount
    /\ CanTake(f1_q)
    /\ f1_q' = Append(f1_q, f1_k)
    /\ f1_k' = f1_k + 1
    /\ UNCHANGED <<f1_pc, f1_w, f1_out, f1_runs, f1_prev, tabVars, matchVars, fxVars, pipeVars>>

\* Line 259: the loop ends.
F1DispatchEnd ==
    /\ f1_pc = "dispatch"
    /\ f1_k >= F1TaskCount
    /\ f1_pc' = "wait"
    /\ UNCHANGED <<f1_k, f1_q, f1_w, f1_out, f1_runs, f1_prev, tabVars, matchVars, fxVars, pipeVars>>

\* A worker of the pool takes the next task.
F1Start(w) ==
    /\ f1_w[w].st = "idle"
    /\ f1_q # <<>>
    /\ f1_w' = [f1_w EXCEPT ![w].st = "run", ![w].block = Head(f1_q)]
    /\ f1_q' = Tail(f1_q)
    /\ UNCHANGED <<f1_pc, f1_k, f1_out, f1_runs, f1_prev, tabVars, matchVars, fxVars, pipeVars>>

\* Lines 250-255: the worker's function.
F1Run(w) ==
    /\ f1_w[w].st = "run"
    /\ f1_w' = [f1_w EXCEPT ![w].st = "out", ![w].out = F1Task(f1_w[w].block, 0)]
    /\ UNCHANGED <<f1_pc, f1_k, f1_q, f1_out, f1_runs, f1_prev, tabVars, matchVars, fxVars, pipeVars>>

\* Line 256: the worker's vector goes to output.
F1Deliver(w) ==
    /\ f1_w[w].st = "out"
    /\ f1_out' = Append(f1_out, f1_w[w].out)
    /\ f1_w' = [f1_w EXCEPT ![w] = IdleF1Worker]
    /\ UNCHANGED <<f1_pc, f1_k, f1_q, f1_runs, f1_prev, tabVars, matchVars, fxVars, pipeVars>>

\* Line 262: pool.wait()
F1Wait ==
    /\ f1_pc = "wait"
    /\ f1_q = <<>>
    /\ \A w \in Workers : f1_w[w].st = "idle"
    /\ f1_pc' = "done"
    /\ f1_runs' = f1_runs + 1
    /\ UNCHANGED <<f1_k, f1_q, f1_w, f1_out, f1_prev, tabVars, matchVars, fxVars, pipeVars>>

\* How many times compute_f1 is called with the same id.
MaxF1Runs == 2

\* compute_f1 is called again with the same id, a new pool and the same
\* output; what the previous call delivered is kept for comparison.
F1Again ==
    /\ f1_pc = "done"
    /\ f1_runs < MaxF1Runs
    /\ f1_prev' = f1_out
    /\ f1_out' = <<>>
    /\ f1_k' = 0
    /\ f1_pc' = "dispatch"
    /\ UNCHANGED <<f1_q, f1_w, f1_runs, tabVars, matchVars, fxVars, pipeVars>>

----------------------------------------------------------------------------
(* FxCalculator, lines 79-145.                                              *)
(*                                                                          *)
(* Bits (chia/bits.hpp), blake3, get_metadata, kVectorLens and the entry    *)
(* types are not among the sources.  A Bits value is the sequence of its    *)
(* bits, first bit first; a byte array is the sequence of the bits of its   *)
(* bytes, so byte b is the bits 8b+1 .. 8b+8.                               *)

\* Line 82
k_ == 32

\* A value stored into a uint8_t.
U8(n) == n % 256

cdiv(a, b) == (a + b - 1) \div b

\* Bits(value, size): the size-bit number value, most significant bit first.
\* The values of the model are below 2^31.
BitsOfInt(value, size) ==
    [j \in 1..size |-> IF size - j >= 31 THEN 0 ELSE (value \div (2 ^ (size - j))) % 2]

\* Bits::ToBytes: the bits, filled up with zero bits to whole bytes.
ToBytes(bits) ==
    bits \o [j \in 1..(cdiv(Len(bits), 8) * 8 - Len(bits)) |-> 0]

\* Bits::Slice(start, end): the bits start .. end - 1.
Slice(bits, start, end) == SubSeq(bits, start + 1, end)

\* Byte b (from 0) of a byte array, as a number.
ByteAt(bytes, b) ==
    128 * bytes[8 * b + 1] + 64 * bytes[8 * b + 2] + 32 * bytes[8 * b + 3]
        + 16 * bytes[8 * b + 4] + 8 * bytes[8 * b + 5] + 4 * bytes[8 * b + 6]
        + 2 * bytes[8 * b + 7] + bytes[8 * b + 8]

RECURSIVE HashSeed(_, _)
HashSeed(bytes, b) ==
    IF 8 * b >= Len(bytes)
    THEN 17
    ELSE (ByteAt(bytes, b) * (b + 2) + 3 * HashSeed(bytes, b + 1)) % 251

\* blake3 (b3/blake3.h), lines 118-121: the 32 bytes of the hash of the given
\* bytes, a fixed function of them.
Hash(bytes) ==
    LET seed == HashSeed(bytes, 0)
    IN  [j \in 1..256 |-> (((seed + j) * (seed + 2 * j + 1)) \div 4 + j \div 3) % 2]

\* A mutant of MetaSlice: the slice starts at the byte boundary.
MetaSliceAligned(hash_bytes, len) ==
    LET start_byte == U8((k_ + kExtraBits) \div 8)
        end_bit == U8(k_ + kExtraBits + k_ * len)
        end_byte == U8(cdiv(end_bit, 8))
        C == SubSeq(hash_bytes, start_byte * 8 + 1, end_byte * 8)
    IN  Slice(C, 0, k_ * len)

\* Lines 128-136: the metadata of tables 4 to 6, cut out of the hash.
MetaSlice(hash_bytes, len) ==
    LET start_byte == U8((k_ + kExtraBits) \div 8)
        end_bit == U8(k_ + kExtraBits + k_ * len)
        end_byte == U8(cdiv(end_bit, 8))
        C == SubSeq(hash_bytes, start_byte * 8 + 1, end_byte * 8)
    IN  Slice(C, (k_ + kExtraBits) % 8, end_bit - start_byte * 8)

\* evaluate, lines 92-141.  L.meta and R.meta are what get_metadata yields,
\* as bits; entry.y is kept as its k_ + kExtraBits bits, and entry.c as the
\* bits of C, which ToBytes and memcpy store (lines 138-140).
evaluate(index, lens, L, R) ==
    LET Y_1 == BitsOfInt(L.y, k_ + kExtraBits)
        L_c == L.meta
        R_c == R.meta
        C0 == IF index < 4 THEN L_c \o R_c ELSE <<>>
        input == IF index < 4 THEN Y_1 \o C0 ELSE (Y_1 \o L_c) \o R_c
        hash_bytes == Hash(ToBytes(input))
        C == IF index < 4
             THEN C0
             ELSE IF index < 7
             THEN MetaSlice(hash_bytes, lens[index + 1])
             ELSE C0
    IN  [y |-> SubSeq(hash_bytes, 1, k_ + kExtraBits), c |-> C, hash |-> hash_bytes]

\* The metadata of a parent entry: meta_bytes bytes of one of two patterns.
MetaOf(meta_bytes, pattern) ==
    [j \in 1..(8 * meta_bytes) |-> IF pattern = 0 THEN (j \div 3) % 2 ELSE ((j * j) \div 5) % 2]

\* Largest element of kVectorLens: C_bytes has room for 16 bytes (line 138).
MaxVectorLen == 4

NoEntry == [y |-> <<>>, c |-> <<>>, hash |-> <<>>]

EvalOff ==
    /\ table_index_ = 0
    /\ kVectorLens = [t \in 5..7 |-> 0]
    /\ fx_L = [y |-> 0, meta |-> <<>>]
    /\ fx_R = [y |-> 0, meta |-> <<>>]
    /\ fx_entry = NoEntry
    /\ fx_pc = "off"

\* FxCalculator Fx(table_index) for the tables 2 to 7, and a pair to evaluate.
InitEval ==
    /\ table_index_ \in 2..7
    /\ kVectorLens \in [5..7 -> 0..MaxVectorLen]
    /\ \E meta_bytes \in {4, 8} :
          /\ fx_L \in {[y |-> y, meta |-> MetaOf(meta_bytes, p)] : y \in {3, kBC + 1}, p \in 0..1}
          /\ fx_R \in {[y |-> kBC + 2, meta |-> MetaOf(meta_bytes, p)] : p \in 0..1}
    /\ fx_entry = NoEntry
    /\ fx_pc = "call"

\* Fx.evaluate(fx_L, fx_R, entry)
Evaluate ==
    /\ fx_pc = "call"
    /\ fx_entry' = evaluate(table_index_, kVectorLens, fx_L, fx_R)
    /\ fx_pc' = "done"
    /\ UNCHANGED <<table_index_, kVectorLens, fx_L, fx_R, tabVars, matchVars, pipeVars, f1Vars>>

----------------------------------------------------------------------------
(* Specifications *)

InitTables ==
    /\ L_targets = ZeroTable
    /\ lt_pc = "idle"
    /\ lt_parity = 0
    /\ lt_i = 0
    /\ lt_m = 0
    /\ lt_calls = 0
    /\ MatchOff
    /\ PipeOff
    /\ F1Off
    /\ EvalOff

NextTables ==
    \/ LoadTablesBegin
    \/ LoadTablesStep

SpecTables == InitTables /\ [][NextTables]_vars

NextMatch == FindMatches

InitMatchOnly == InitMatch /\ PipeOff /\ F1Off /\ EvalOff

SpecMatch == InitMatchOnly /\ [][NextMatch]_vars

NextReuse ==
    \/ FindMatches
    \/ NextCall

InitReuseOnly == InitReuse /\ PipeOff /\ F1Off /\ EvalOff

SpecReuse == InitReuseOnly /\ [][NextReuse]_vars

Init == TablesLoaded /\ MatchOff /\ InitPipe /\ F1Off /\ EvalOff

Next ==
    \/ ReadBatch
    \/ ReadEnd
    \/ Abort
    \/ SliceBatch
    \/ SliceSubmit
    \/ \E w \in Workers : MatchStart(w)
    \/ \E w \in Workers : MatchRun(w)
    \/ \E w \in Workers : MatchDeliver(w)
    \/ EvalStart
    \/ EvalAddBegin
    \/ EvalAddEnd
    \/ EvalDone
    \/ WaitRead
    \/ WaitPool
    \/ FinalMatch
    \/ FinalTake
    \/ WaitEval
    \/ Finish

Spec == Init /\ [][Next]_vars

\* Every thread that can take a step eventually does: the caller, read_thread,
\* each worker of match_pool and eval_thread are threads of their own.
Fairness ==
    /\ WF_vars(ReadBatch \/ ReadEnd \/ Abort \/ WaitRead \/ WaitPool \/ FinalMatch
                    \/ FinalTake \/ WaitEval \/ Finish)
    /\ WF_vars(SliceBatch \/ SliceSubmit)
    /\ \A w \in Workers : WF_vars(MatchStart(w) \/ MatchRun(w) \/ MatchDeliver(w))
    /\ WF_vars(EvalStart \/ EvalAddBegin \/ EvalAddEnd \/ EvalDone)

FairSpec == Spec /\ Fairness

NextF1 ==
    \/ F1Dispatch
    \/ F1DispatchEnd
    \/ \E w \in Workers : F1Start(w)
    \/ \E w \in Workers : F1Run(w)
    \/ \E w \in Workers : F1Deliver(w)
    \/ F1Wait
    \/ F1Again

InitF1Only == TablesLoaded /\ MatchOff /\ PipeOff /\ InitF1 /\ EvalOff

SpecF1 == InitF1Only /\ [][NextF1]_vars

NextEval == Evaluate

InitEvalOnly == TablesLoaded /\ MatchOff /\ PipeOff /\ F1Off /\ InitEval

SpecEval == InitEvalOnly /\ [][NextEval]_vars

----------------------------------------------------------------------------
(* Properties of load_tables *)

\* r is a residue for which m is the candidate number of left residue i:
\* the two congruences of the matching relation.
IsTarget(parity, i, m, r) ==
    /\ ((r \div kC) - (i \div kC) - m) % kB = 0
    /\ ((r % kC) - (i % kC) - (2 * m + parity) * (2 * m + parity)) % kC = 0

\* C9: once load_tables has run, every element of L_targets has the value of
\* the formula, is below kBC and is the only residue satisfying the two
\* congruences for its (parity, i, m); this stays so all through, and after, a
\* second run of load_tables.
C9_TableLoaded ==
    lt_calls >= 1 =>
        \A parity \in 0..1, i \in 0..(kBC - 1), m \in 0..(kExtraBitsPow - 1) :
            LET v == L_targets[parity][i][m]
            IN  /\ v = ((i \div kC + m) % kB) * kC
                        + (((2 * m + parity) * (2 * m + parity) + i) % kC)
                /\ v < kBC
                /\ {r \in 0..(kBC - 1) : IsTarget(parity, i, m, r)} = {v}

\* C9, witness: load_tables has run a second time over the loaded table.
C9_Witness == lt_calls = 2 /\ lt_pc = "done"

----------------------------------------------------------------------------
(* Properties of one find_matches call *)

\* The index pairs find_matches_ex returned, as a set.
ReturnedPairs == {<<m_res.idx[k].l, m_res.idx[k].r>> : k \in 1..Len(m_res.idx)}

\* The pairs a scan of every (i, j) finds.
BruteForcePairs ==
    IF Len(m_L) = 0
    THEN {}
    ELSE LET parity == (m_L[1].y \div kBC) % 2
         IN  {p \in (0..(Len(m_L) - 1)) \X (0..(Len(m_R) - 1)) :
                \E m \in 0..(kExtraBitsPow - 1) :
                    IsTarget(parity, m_L[p[1] + 1].y % kBC, m, m_R[p[2] + 1].y % kBC)}

\* The entries of a bucket that have the same y are next to each other.
Contiguous(bucket) ==
    \A i, j, k \in 1..Len(bucket) :
        (i < j /\ j < k /\ bucket[i].y = bucket[k].y) => bucket[j].y = bucket[i].y

Residue(e) == e.y % kBC

\* How many times find_matches_ex wrote the index pair (i, j).
EmittedCount(i, j) ==
    Cardinality({k \in 1..Len(m_res.idx) : m_res.idx[k].l = i /\ m_res.idx[k].r = j})

\* The candidate numbers m for which right entry j has the target residue of
\* left entry i.
CandidatesOf(i, j) ==
    LET parity == (m_L[1].y \div kBC) % 2
    IN  {m \in 0..(kExtraBitsPow - 1) :
            L_targets[parity][Residue(m_L[i + 1])][m] = Residue(m_R[j + 1])}

\* C14: when the entries of the right bucket that have the same residue are
\* contiguous, find_matches_ex writes the pair (i, j) once for every candidate
\* m whose target residue for left entry i is the residue of right entry j, and
\* no other pair; there is at most one such m, so no pair is written twice.
C14_OnePairPerTarget ==
    (m_pc = "done" /\ Contiguous(m_R)) =>
        /\ \A k \in 1..Len(m_res.idx) :
              m_res.idx[k].l < Len(m_L) /\ m_res.idx[k].r < Len(m_R)
        /\ \A i \in 0..(Len(m_L) - 1), j \in 0..(Len(m_R) - 1) :
              /\ EmittedCount(i, j) = Cardinality(CandidatesOf(i, j))
              /\ EmittedCount(i, j) <= 1

\* C14, witness: a left entry has both its candidates in the right bucket,
\* one of them at two contiguous entries that do not begin the bucket.
C14_Witness ==
    /\ m_pc = "done"
    /\ Contiguous(m_R)
    /\ Len(m_R) >= 3
    /\ \E i \in 0..(Len(m_L) - 1) :
          /\ CandidatesOf(i, 0) = {1}
          /\ CandidatesOf(i, 1) = {0}
          /\ CandidatesOf(i, 2) = {0}
          /\ EmittedCount(i, 0) = 1 /\ EmittedCount(i, 1) = 1 /\ EmittedCount(i, 2) = 1

\* The counts a residue map has after a call on right bucket R alone.
CountIn(bucket, r) == Cardinality({k \in 1..Len(bucket) : Residue(bucket[k]) = r})

\* C15: whatever calls were made on the matcher before, those returning early
\* included, a call returns the index pairs and the matches that a newly
\* constructed matcher returns for the same buckets, and after a call that
\* did not return early the counts of the residue map are those of its right
\* bucket alone.
C15_SameAsFresh ==
    m_pc = "done" =>
        LET fresh == find_matches(FreshFx, L_targets, m_pos, m_L, m_R)
        IN  /\ m_res.idx = fresh.idx
            /\ m_res.out = fresh.out
            /\ (Len(m_L) > 0 /\ Len(m_R) > 0) =>
                  \A r \in 0..(kBC - 1) : m_fx.rmap[r].count = CountIn(m_R, r)

\* C15, witness: the third call on a matcher whose second call returned early;
\* it found a match, and the map still holds a position of an earlier right
\* bucket at a residue the present one does not have.
C15_Witness ==
    /\ m_pc = "done"
    /\ m_calls = 3
    /\ m_early = 1
    /\ Len(m_L) > 0 /\ Len(m_R) > 0
    /\ m_res.out # <<>>
    /\ \E r \in 0..(kBC - 1) : m_fx.rmap[r].count = 0 /\ m_fx.rmap[r].pos > 0

\* The position (from 0) of the first entry of the right bucket with residue r.
FirstPosIn(bucket, r) ==
    CHOOSE p \in 0..(Len(bucket) - 1) :
        /\ Residue(bucket[p + 1]) = r
        /\ \A q \in 0..(p - 1) : Residue(bucket[q + 1]) # r

\* The right positions written for candidate m of left entry i: as many as the
\* right bucket has entries with the target residue, counted up from the first.
RunOf(i, m) ==
    LET parity == (m_L[1].y \div kBC) % 2
        target == L_targets[parity][Residue(m_L[i + 1])][m]
        count == CountIn(m_R, target)
    IN  IF count = 0
        THEN <<>>
        ELSE [j \in 1..count |-> FirstPosIn(m_R, target) + (j - 1)]

\* The runs of the candidates m, m + 1, ... of left entry i, one after another.
RECURSIVE RunsFrom(_, _)
RunsFrom(i, m) ==
    IF m >= kExtraBitsPow THEN <<>> ELSE RunOf(i, m) \o RunsFrom(i, m + 1)

\* The right positions written for left entry i, in the order written.
RightsOf(i) ==
    LET sel == SelectSeq(m_res.idx, LAMBDA p : p.l = i)
    IN  [k \in 1..Len(sel) |-> sel[k].r]

\* C17: the index pairs are written, and the matches returned, in discovery
\* order: the left indices do not decrease along the list; for one left entry
\* the pairs of candidate 0 come first, then those of candidate 1, and so on;
\* for one left entry and one candidate the right indices go up one by one;
\* and match k of the list returned is made from index pair k.
C17_DiscoveryOrder ==
    m_pc = "done" =>
        /\ \A k \in 2..Len(m_res.idx) : m_res.idx[k - 1].l <= m_res.idx[k].l
        /\ \A i \in 0..(Len(m_L) - 1) :
              Len(m_R) > 0 => RightsOf(i) = RunsFrom(i, 0)
        /\ ~m_res.ub =>
              /\ Len(m_res.out) = Len(m_res.idx)
              /\ \A k \in 1..Len(m_res.out) :
                    /\ m_res.out[k].left = m_L[m_res.idx[k].l + 1]
                    /\ m_res.out[k].right = m_R[m_res.idx[k].r + 1]
                    /\ m_res.out[k].pos = m_pos + m_res.idx[k].l

\* C17, witness: the list returned has, for its second left entry, two matches
\* of candidate 0 followed by a match of candidate 1 at a lower right index,
\* after a match of the first left entry.
C17_Witness ==
    /\ m_pc = "done"
    /\ ~m_res.ub
    /\ Len(m_L) >= 2 /\ Len(m_R) >= 3
    /\ RightsOf(0) # <<>>
    /\ Len(RunOf(1, 0)) = 2
    /\ Len(RunOf(1, 1)) = 1
    /\ RunOf(1, 1)[1] < RunOf(1, 0)[1]
    /\ Len(m_res.out) = Len(RightsOf(0)) + 3

\* C19, as claimed: find_matches_ex writes at most kBC index pairs, and every
\* left and right position written fits 16 bits and is an index of its bucket.
C19_WithinCapacity ==
    m_pc = "done" =>
        /\ Len(m_res.idx) <= kBC
        /\ ~m_res.ub
        /\ \A k \in 1..Len(m_res.idx) :
              /\ m_res.idx[k].l < 65536 /\ m_res.idx[k].r < 65536
              /\ m_res.idx[k].l < Len(m_L) /\ m_res.idx[k].r < Len(m_R)

\* What holds of the positions written: they are indices of their buckets.
IndicesValid ==
    m_pc = "done" =>
        \A k \in 1..Len(m_res.idx) :
            m_res.idx[k].l < Len(m_L) /\ m_res.idx[k].r < Len(m_R)

----------------------------------------------------------------------------
(* Properties of compute_matches *)

BucketIndex(e) == e.y \div kBC

\* The stream is in non-decreasing bucket-index order.
Sorted(st) == \A k \in 2..Len(st) : BucketIndex(st[k - 1]) <= BucketIndex(st[k])

\* The position (from 1) of the first entry whose bucket index is below that
\* of the entry before it; 0 when there is none.
FirstDescent(st) ==
    IF Sorted(st)
    THEN 0
    ELSE CHOOSE k \in 2..Len(st) :
            /\ BucketIndex(st[k]) < BucketIndex(st[k - 1])
            /\ \A j \in 2..(k - 1) : BucketIndex(st[j - 1]) <= BucketIndex(st[j])

\* Positions a..b of the stream are one whole bucket of it.
IsBucket(a, b) ==
    /\ 1 <= a /\ a <= b /\ b <= Len(stream)
    /\ \A k \in a..b : BucketIndex(stream[k]) = BucketIndex(stream[a])
    /\ a = 1 \/ BucketIndex(stream[a - 1]) # BucketIndex(stream[a])
    /\ b = Len(stream) \/ BucketIndex(stream[b + 1]) # BucketIndex(stream[a])

\* The pairs of consecutive buckets of the stream whose indices differ by 1.
AdjacentBuckets ==
    {<<SubSeq(stream, a, b), SubSeq(stream, b + 1, c)>> :
        <<a, b, c>> \in
            {t \in (1..Len(stream)) \X (1..Len(stream)) \X (1..Len(stream)) :
                /\ IsBucket(t[1], t[2])
                /\ IsBucket(t[2] + 1, t[3])
                /\ BucketIndex(stream[t[2] + 1]) = BucketIndex(stream[t[1]]) + 1}}

\* The pairs of buckets the matcher has been run on.
RanPairs == {<<ran[k].L, ran[k].R>> : k \in 1..Len(ran)}

\* The matches found by the first k calls of find_matches.
RECURSIVE MatchesFound(_)
MatchesFound(k) == IF k = 0 THEN 0 ELSE Len(ran[k].out) + MatchesFound(k - 1)

C5_SingleAdder ==
    /\ Cardinality(adders) <= 1
    /\ adders \subseteq {"eval"}
    /\ added_by \subseteq {"eval"}

\* C5, witness: eval_thread is adding an entry of the caller's final match.
C5_Witness ==
    /\ ev_st = "add"
    /\ adders = {"eval"}
    /\ \E k \in 1..Len(ran) : ran[k].by = "caller" /\ ran[k].out = ev_cur

\* C6: the value returned is the number of matches found by all the
\* find_matches calls, and the number of entries added to R_sort.
C6_ReturnsTotal ==
    pc = "done" =>
        /\ ret = <<MatchesFound(Len(ran))>>
        /\ ret = <<Len(R_sort.entries)>>

\* C6, witness: a return after matches of a pool job and of the final match.
C6_Witness ==
    /\ pc = "done"
    /\ ret # <<0>>
    /\ \E k \in 1..Len(ran) : ran[k].by = "pool" /\ ran[k].out # <<>>
    /\ \E k \in 1..Len(ran) : ran[k].by = "caller" /\ ran[k].out # <<>>

\* C7: for every match of every find_matches call, pos is the stream position
\* of the left entry and pos + off that of the right entry.
C7_GlobalPositions ==
    \A k \in 1..Len(ran) :
        \A j \in 1..Len(ran[k].out) :
            LET mt == ran[k].out[j]
            IN  /\ mt.pos + mt.off < Len(stream)
                /\ stream[mt.pos + 1] = mt.left
                /\ stream[mt.pos + mt.off + 1] = mt.right
                /\ mt.off = mt.right.id - mt.left.id

\* C7, witness: a match of a pool job and a match of the final match, whose
\* left entry is not the first of the stream and whose right entry is not the
\* first of its bucket.
C7_Witness ==
    /\ \E k \in 1..Len(ran) : ran[k].by = "pool" /\ ran[k].out # <<>>
    /\ \E k \in 1..Len(ran) :
          /\ ran[k].by = "caller"
          /\ \E j \in 1..Len(ran[k].out) :
                /\ ran[k].out[j].pos > 0
                /\ ran[k].out[j].right # ran[k].R[1]

\* The tasks queued in match_pool or in the hands of one of its workers.
PoolTasks == mp_q \o [w \in 1..NumThreads |-> mp_w[w].input]

\* The unfinished jobs: a task and a place in it.
PoolJobs == {p \in (1..Len(PoolTasks)) \X (1..MaxStream) : p[2] <= Len(PoolTasks[p[1]])}

JobAt(p) == PoolTasks[p[1]][p[2]]

\* C8, as claimed: no bucket is referenced by two unfinished jobs.
C8_OneJobPerBucket ==
    \A id \in 1..Len(heap) :
        Cardinality({p \in PoolJobs : id \in {JobAt(p).L_bucket[0], JobAt(p).L_bucket[1]}}) <= 1

\* C8, amended: a bucket is the left bucket of at most one unfinished job and
\* the right bucket of at most one, so it is referenced by at most two.
C8_OneJobPerSide ==
    \A id \in 1..Len(heap) :
        /\ Cardinality({p \in PoolJobs : JobAt(p).L_bucket[1] = id}) <= 1
        /\ Cardinality({p \in PoolJobs : JobAt(p).L_bucket[0] = id}) <= 1

\* C8, witness: two workers are running at once, and a bucket is the right
\* bucket of one's job and the left bucket of the other's.
C8_Witness ==
    \E v, w \in Workers :
        /\ v # w
        /\ mp_w[v].st = "run" /\ mp_w[w].st = "run"
        /\ Len(mp_w[v].input) = 1 /\ Len(mp_w[w].input) = 1
        /\ mp_w[v].input[1].L_bucket[0] = mp_w[w].input[1].L_bucket[1]

----------------------------------------------------------------------------
(* Properties of compute_f1 *)

\* How many of the entries handed to output have this x.
TimesProduced(x) ==
    Cardinality({p \in (1..Len(f1_out)) \X (1..(M * BlockSize)) : f1_out[p[1]][p[2]].x = x})

\* C10, as claimed: when compute_f1 returns, every x of the kK-bit address
\* space has been produced exactly once.
C10_FullAddressSpace ==
    f1_pc = "done" => \A x \in 0..(2 ^ kK - 1) : TimesProduced(x) = 1

\* What compute_f1 produces instead: the first quarter of the address space,
\* every x of it once, and no x of the rest.
F1FirstQuarter ==
    f1_pc = "done" =>
        /\ \A x \in 0..(2 ^ (kK - 2) - 1) : TimesProduced(x) = 1
        /\ \A x \in (2 ^ (kK - 2))..(2 ^ kK - 1) : TimesProduced(x) = 0

\* The vectors of a sequence handed to output, as a set.
VectorsOf(out) == {out[k] : k \in 1..Len(out)}

\* C11, as claimed: a second call of compute_f1 with the same id hands the
\* same vectors to output in the same order as the first.
C11_SameSequence ==
    (f1_pc = "done" /\ f1_runs = 2) => f1_out = f1_prev

\* What two calls have in common: the same vectors, each handed over once,
\* in an order that depends on the workers.
F1SameVectors ==
    (f1_pc = "done" /\ f1_runs = 2) =>
        /\ VectorsOf(f1_out) = VectorsOf(f1_prev)
        /\ Len(f1_out) = Len(f1_prev)
        /\ Cardinality(VectorsOf(f1_out)) = Len(f1_out)


----------------------------------------------------------------------------
(* Properties of FxCalculator::evaluate *)

\* The bits first .. first + width - 1 (from 0) of the hash the entry was made from.
HashBits(first, width) == [j \in 1..width |-> fx_entry.hash[first + j]]

----------------------------------------------------------------------------
(* Termination of compute_matches *)

\* The threads that can take a step, by the guards of their actions.
CallerCanStep ==
    \/ pc = "read" /\ rt_st # "failed" /\ (rd = Len(stream) \/ CanTake(rt_q))
    \/ pc \in {"read", "wait_read"} /\ rt_st = "failed"
    \/ pc = "wait_read" /\ ReadDrained
    \/ pc = "wait_pool" /\ PoolDrained
    \/ pc = "final"
    \/ pc = "final_take" /\ CanTake(ev_q)
    \/ pc = "wait_eval" /\ EvalDrained
    \/ pc = "finish"

SlicerCanStep ==
    \/ rt_st = "idle" /\ rt_q # <<>>
    \/ rt_st = "submit" /\ CanTake(mp_q)

WorkerCanStep(w) ==
    \/ mp_w[w].st = "idle" /\ mp_q # <<>>
    \/ mp_w[w].st = "run"
    \/ mp_w[w].st = "out" /\ CanTake(ev_q)

EvalCanStep ==
    \/ ev_st = "idle" /\ ev_q # <<>>
    \/ ev_st \in {"run", "add"}

\* No thread can take a step: the caller, the slicer, the workers and the
\* hashing stage are all blocked or ended.
Stuck ==
    \/ crashed
    \/ ~(CallerCanStep \/ SlicerCanStep \/ EvalCanStep \/ \E w \in Workers : WorkerCanStep(w))

\* Stuck is the states in which no action of Next is enabled.
StuckIsDisabled == Stuck <=> ~ENABLED Next

\* C13, as claimed: on a sorted stream the run goes on until compute_matches
\* has returned with finish called: the process is never ended early and the
\* threads never come to a standstill before the return.
C13_NeverStuck ==
    Sorted(stream) =>
        /\ ~crashed
        /\ Stuck => (pc = "done" /\ R_sort.finished = 1)

\* The same as a property of the fair behaviours.
C13_Terminates == Sorted(stream) => <>(pc = "done")

StartsInBucket0 == stream # <<>> => BucketIndex(stream[1]) = 0

\* What holds instead: on every sorted stream that is empty or begins in
\* bucket 0 the threads come to a standstill only when compute_matches has
\* returned, with finish called once and nothing left in any stage.
NeverStuckFromBucket0 ==
    (Sorted(stream) /\ StartsInBucket0) =>
        /\ ~crashed
        /\ Stuck => (pc = "done" /\ R_sort.finished = 1
                        /\ ReadDrained /\ PoolDrained /\ EvalDrained)

TerminatesFromBucket0 ==
    (Sorted(stream) /\ StartsInBucket0) => <>(pc = "done")

----------------------------------------------------------------------------
(* The buckets of compute_matches *)

\* The jobs the stream calls for: two consecutive whole buckets of it whose
\* indices differ by 1, with the stream positions at which they begin.
ExpectedJobs ==
    {[L |-> SubSeq(stream, t[1], t[2]), R |-> SubSeq(stream, t[2] + 1, t[3]),
      offsets |-> <<t[1] - 1, t[2]>>] :
        t \in {u \in (1..Len(stream)) \X (1..Len(stream)) \X (1..Len(stream)) :
                  /\ IsBucket(u[1], u[2])
                  /\ IsBucket(u[2] + 1, u[3])
                  /\ BucketIndex(stream[u[2] + 1]) = BucketIndex(stream[u[1]]) + 1}}

\* The jobs the matcher has been run on: the buckets and offsets it was given.
RanJobs ==
    {[L |-> ran[k].L, R |-> ran[k].R, offsets |-> ran[k].offsets] : k \in 1..Len(ran)}

\* C16: on a sorted stream, however it is cut into batches, every bucket given
\* to the matcher is a whole bucket of the stream, its entries in stream order,
\* together with the stream position at which it begins; and when
\* compute_matches returns the jobs run are those the stream calls for.
C16_WholeBuckets ==
    Sorted(stream) =>
        /\ RanJobs \subseteq ExpectedJobs
        /\ pc = "done" => RanJobs = ExpectedJobs

\* C16, witness: a return after a batch ended inside bucket 1, which was then
\* the right bucket of a job of the pool and the left bucket of the final match.
C16_Witness ==
    /\ pc = "done"
    /\ split
    /\ Len(stream) = 4
    /\ BucketIndex(stream[2]) = 1 /\ BucketIndex(stream[3]) = 1
    /\ \E k \in 1..Len(ran) : ran[k].by = "pool" /\ Len(ran[k].R) = 2
    /\ \E k \in 1..Len(ran) : ran[k].by = "caller" /\ Len(ran[k].L) = 2

\* The jobs the slicer has made that are not yet matched: in out, in the queue
\* of match_pool or in the hands of a worker.
OpenJobs ==
    {rt_out[k] : k \in 1..Len(rt_out)} \cup {JobAt(p) : p \in PoolJobs}

\* The vector at this address is made, non-empty and all of bucket index b.
IsBucketOfIndex(id, b) ==
    /\ id # Null
    /\ id <= Len(heap)
    /\ heap[id] # <<>>
    /\ \A k \in 1..Len(heap[id]) : BucketIndex(heap[id][k]) = b

\* A job carries two buckets of indices b and b + 1.
CarriesBuckets(job) ==
    /\ job.L_bucket[1] # Null
    /\ job.L_bucket[1] <= Len(heap)
    /\ heap[job.L_bucket[1]] # <<>>
    /\ IsBucketOfIndex(job.L_bucket[1], BucketIndex(heap[job.L_bucket[1]][1]))
    /\ IsBucketOfIndex(job.L_bucket[0], BucketIndex(heap[job.L_bucket[1]][1]) + 1)

\* C18, as claimed: on a sorted stream the slicer never reads the size of an
\* absent bucket, so the process is not ended by it, and every job, the final
\* match included, carries two existing, non-empty buckets of indices b, b + 1.
C18_NoAbsentBucket ==
    Sorted(stream) =>
        /\ ~crashed
        /\ \A job \in OpenJobs : CarriesBuckets(job)
        /\ \A k \in 1..Len(ran) :
              /\ ran[k].L # <<>> /\ ran[k].R # <<>>
              /\ \A e \in 1..Len(ran[k].R) :
                    BucketIndex(ran[k].R[e]) = BucketIndex(ran[k].L[1]) + 1

\* What holds of the jobs: those that are made carry two existing buckets.
JobsCarryBuckets ==
    /\ \A job \in OpenJobs : CarriesBuckets(job)
    /\ \A k \in 1..Len(ran) : ran[k].L # <<>> /\ ran[k].R # <<>>

\* A bucket is complete: it is a whole bucket of the stream.
Complete(bucket) ==
    \E a, b \in 1..Len(stream) : IsBucket(a, b) /\ bucket = SubSeq(stream, a, b)

\* C20: the buckets of the jobs handed to match_pool are never changed again;
\* the buckets of the jobs queued in match_pool or held by a worker are
\* complete; and the caller is at the final match only when the slicer has
\* been through every batch and match_pool has nothing queued or running.
C20_BucketsFrozen ==
    /\ [][\A id \in submitted : heap'[id] = heap[id]]_vars
    /\ [](\A p \in PoolJobs :
            /\ {JobAt(p).L_bucket[0], JobAt(p).L_bucket[1]} \subseteq submitted
            /\ Complete(heap[JobAt(p).L_bucket[0]])
            /\ Complete(heap[JobAt(p).L_bucket[1]]))
    /\ [](pc \in {"final", "final_take"} =>
            /\ sliced = Len(stream)
            /\ ReadDrained
            /\ PoolDrained)

\* C20, witness: a worker is matching two submitted buckets while the slicer
\* has already put an entry into the next bucket, and another job waits.
C20_Witness ==
    /\ \E w \in Workers :
          /\ mp_w[w].st = "run"
          /\ Len(mp_w[w].input) = 1
          /\ mp_w[w].input[1].L_bucket[0] \in submitted
    /\ L_bucket[0] # Null
    /\ L_bucket[0] \notin submitted
    /\ heap[L_bucket[0]] # <<>>
    /\ rt_st = "submit"
    /\ rt_out # <<>>

====
